---- MODULE Spec2Model ----
(***************************************************************************)
(* Routing-and-fallback engine of my-llm-router                            *)
(* (src/src/app/actions/llmActions.ts with the catalog of @/lib/models):   *)
(* prompt classification, candidate selection, the per-provider health     *)
(* tracker and the bounded retry loop of getModelResponseWithRouting.      *)
(*                                                                         *)
(* Texts (prompts, error messages) are sequences / sets of phrases: the    *)
(* code only ever asks whether a text contains a phrase, whether it is     *)
(* blank and how long it is.  Time is in milliseconds.                     *)
(***************************************************************************)
EXTENDS Integers, Sequences, FiniteSets, TLC

(***************************************************************************)
(* Bounds of the model                                                     *)
(***************************************************************************)
MaxInvocations == 2
MaxFailures == 5
MaxTicks == 2
MaxOps == 5
MaxLiveInvocations == 1
MaxOtherOps == 2
MaxPromptLen == 2

\* one step of the clock: half a cooldown
TickMs == 150000

(***************************************************************************)
(* Small helpers                                                           *)
(***************************************************************************)
Range(s) == {s[i] : i \in 1..Len(s)}

Undefined == "undefined"

\* Array.prototype.slice(0, n)
Slice(s, n) == SubSeq(s, 1, IF Len(s) < n THEN Len(s) ELSE n)

RECURSIVE Concat(_)
\* flattening of a sequence of sequences (providers.push(...xs) in a loop)
Concat(ss) == IF ss = <<>> THEN <<>> ELSE Head(ss) \o Concat(Tail(ss))

(***************************************************************************)
(* Model catalog (@/lib/models)                                            *)
(***************************************************************************)
ProviderType == {"openai", "anthropic", "google", "mistral", "togetherai"}

RoutingPriority == {"cost", "latency", "quality"}

PromptType == {"summarization", "code_generation", "qa_simple", "qa_complex",
               "creative_writing", "analysis", "translation", "math_logic",
               "general_chat"}

\* Object.keys(MODEL_CONFIGS), in insertion order
AllModelNames ==
  << "openai/gpt-4o", "openai/gpt-4-turbo", "openai/gpt-4o-mini", "openai/gpt-3.5-turbo",
     "anthropic/claude-3-5-sonnet-20240620", "anthropic/claude-3-opus-20240229",
     "anthropic/claude-3-haiku-20240307", "anthropic/claude-3-5-haiku-20241022",
     "google/gemini-1.5-pro-latest", "google/gemini-1.5-flash-latest",
     "mistral/mistral-large-latest", "mistral/mistral-small-latest",
     "mistral/open-mixtral-8x7b",
     "togetherai/meta-llama/Meta-Llama-3.1-70B-Instruct-Turbo",
     "togetherai/Qwen/Qwen2.5-72B-Instruct",
     "togetherai/mistralai/Mixtral-8x7B-Instruct-v0.1" >>

\* the text of a model name before its first "/"
NamePrefix(m) ==
  CASE m \in {"openai/gpt-4o", "openai/gpt-4-turbo", "openai/gpt-4o-mini",
              "openai/gpt-3.5-turbo"} -> "openai"
    [] m \in {"anthropic/claude-3-5-sonnet-20240620", "anthropic/claude-3-opus-20240229",
              "anthropic/claude-3-haiku-20240307",
              "anthropic/claude-3-5-haiku-20241022"} -> "anthropic"
    [] m \in {"google/gemini-1.5-pro-latest", "google/gemini-1.5-flash-latest"} -> "google"
    [] m \in {"mistral/mistral-large-latest", "mistral/mistral-small-latest",
              "mistral/open-mixtral-8x7b"} -> "mistral"
    [] m \in {"togetherai/meta-llama/Meta-Llama-3.1-70B-Instruct-Turbo",
              "togetherai/Qwen/Qwen2.5-72B-Instruct",
              "togetherai/mistralai/Mixtral-8x7B-Instruct-v0.1"} -> "togetherai"
    [] OTHER -> "unknown"

\* MODEL_CONFIGS[m].provider
ConfigProvider(m) ==
  CASE m \in {"openai/gpt-4o", "openai/gpt-4-turbo", "openai/gpt-4o-mini",
              "openai/gpt-3.5-turbo"} -> "openai"
    [] m \in {"anthropic/claude-3-5-sonnet-20240620", "anthropic/claude-3-opus-20240229",
              "anthropic/claude-3-haiku-20240307",
              "anthropic/claude-3-5-haiku-20241022"} -> "anthropic"
    [] m \in {"google/gemini-1.5-pro-latest", "google/gemini-1.5-flash-latest"} -> "google"
    [] m \in {"mistral/mistral-large-latest", "mistral/mistral-small-latest",
              "mistral/open-mixtral-8x7b"} -> "mistral"
    [] m \in {"togetherai/meta-llama/Meta-Llama-3.1-70B-Instruct-Turbo",
              "togetherai/Qwen/Qwen2.5-72B-Instruct",
              "togetherai/mistralai/Mixtral-8x7B-Instruct-v0.1"} -> "togetherai"

\* DEFAULT_ROUTING_RULES[promptType][priority]
DEFAULT_ROUTING_RULES(promptType, priority) ==
  CASE promptType \in {"general_chat", "qa_simple"} ->
         (CASE priority = "cost" -> << "google/gemini-1.5-flash-latest",
                    "anthropic/claude-3-haiku-20240307", "openai/gpt-3.5-turbo" >>
            [] priority = "latency" -> << "google/gemini-1.5-flash-latest",
                    "anthropic/claude-3-5-haiku-20241022", "openai/gpt-4o-mini" >>
            [] priority = "quality" -> << "anthropic/claude-3-5-sonnet-20240620",
                    "openai/gpt-4o", "google/gemini-1.5-pro-latest" >>)
    [] promptType = "code_generation" ->
         (CASE priority = "cost" -> << "anthropic/claude-3-haiku-20240307",
                    "mistral/open-mixtral-8x7b", "openai/gpt-4o-mini" >>
            [] priority = "latency" -> << "anthropic/claude-3-5-haiku-20241022",
                    "google/gemini-1.5-flash-latest", "openai/gpt-4o-mini" >>
            [] priority = "quality" -> << "openai/gpt-4-turbo",
                    "anthropic/claude-3-opus-20240229",
                    "togetherai/Qwen/Qwen2.5-72B-Instruct" >>)
    [] promptType = "summarization" ->
         (CASE priority = "cost" -> << "anthropic/claude-3-haiku-20240307",
                    "google/gemini-1.5-flash-latest", "openai/gpt-3.5-turbo" >>
            [] priority = "latency" -> << "google/gemini-1.5-flash-latest",
                    "anthropic/claude-3-5-haiku-20241022", "openai/gpt-4o-mini" >>
            [] priority = "quality" -> << "openai/gpt-4-turbo",
                    "anthropic/claude-3-5-sonnet-20240620",
                    "google/gemini-1.5-pro-latest" >>)
    [] promptType = "qa_complex" ->
         (CASE priority = "cost" -> << "anthropic/claude-3-5-sonnet-20240620",
                    "openai/gpt-4o", "google/gemini-1.5-pro-latest" >>
            [] priority = "latency" -> << "openai/gpt-4o",
                    "anthropic/claude-3-5-sonnet-20240620",
                    "google/gemini-1.5-pro-latest" >>
            [] priority = "quality" -> << "openai/gpt-4-turbo",
                    "anthropic/claude-3-opus-20240229",
                    "google/gemini-1.5-pro-latest" >>)
    [] promptType = "creative_writing" ->
         (CASE priority = "cost" -> << "anthropic/claude-3-haiku-20240307",
                    "mistral/open-mixtral-8x7b", "openai/gpt-4o-mini" >>
            [] priority = "latency" -> << "anthropic/claude-3-5-haiku-20241022",
                    "google/gemini-1.5-flash-latest", "openai/gpt-4o" >>
            [] priority = "quality" -> << "anthropic/claude-3-opus-20240229",
                    "openai/gpt-4-turbo", "mistral/mistral-large-latest" >>)
    [] promptType = "analysis" ->
         (CASE priority = "cost" -> << "anthropic/claude-3-5-sonnet-20240620",
                    "google/gemini-1.5-pro-latest", "openai/gpt-4o" >>
            [] priority = "latency" -> << "google/gemini-1.5-pro-latest",
                    "anthropic/claude-3-5-sonnet-20240620", "openai/gpt-4o" >>
            [] priority = "quality" -> << "openai/gpt-4-turbo",
                    "anthropic/claude-3-opus-20240229",
                    "google/gemini-1.5-pro-latest" >>)
    [] promptType = "translation" ->
         (CASE priority = "cost" -> << "google/gemini-1.5-flash-latest",
                    "anthropic/claude-3-haiku-20240307", "openai/gpt-3.5-turbo" >>
            [] priority = "latency" -> << "google/gemini-1.5-flash-latest",
                    "anthropic/claude-3-5-haiku-20241022", "openai/gpt-4o-mini" >>
            [] priority = "quality" -> << "openai/gpt-4o",
                    "google/gemini-1.5-pro-latest",
                    "anthropic/claude-3-5-sonnet-20240620" >>)
    [] promptType = "math_logic" ->
         (CASE priority = "cost" -> << "google/gemini-1.5-pro-latest",
                    "anthropic/claude-3-5-sonnet-20240620", "openai/gpt-4o" >>
            [] priority = "latency" -> << "google/gemini-1.5-flash-latest",
                    "openai/gpt-4o", "google/gemini-1.5-pro-latest" >>
            [] priority = "quality" -> << "openai/gpt-4-turbo",
                    "anthropic/claude-3-opus-20240229",
                    "google/gemini-1.5-pro-latest" >>)

(***************************************************************************)
(* Prices and costs.  A price of MODEL_CONFIGS is a whole number of cents  *)
(* per million tokens; an amount of money is held as a whole number of     *)
(* sixths of 10^-8 dollar, so that the cost of a call and the mean of up   *)
(* to three such costs are whole numbers.                                  *)
(***************************************************************************)
\* MODEL_CONFIGS[m].cost.input, in cents
CostInput(m) ==
  CASE m = "openai/gpt-4o" -> 500
    [] m = "openai/gpt-4-turbo" -> 1000
    [] m = "openai/gpt-4o-mini" -> 15
    [] m = "openai/gpt-3.5-turbo" -> 50
    [] m = "anthropic/claude-3-5-sonnet-20240620" -> 300
    [] m = "anthropic/claude-3-opus-20240229" -> 1500
    [] m = "anthropic/claude-3-haiku-20240307" -> 25
    [] m = "anthropic/claude-3-5-haiku-20241022" -> 100
    [] m = "google/gemini-1.5-pro-latest" -> 350
    [] m = "google/gemini-1.5-flash-latest" -> 35
    [] m = "mistral/mistral-large-latest" -> 400
    [] m = "mistral/mistral-small-latest" -> 100
    [] m = "mistral/open-mixtral-8x7b" -> 70
    [] m = "togetherai/meta-llama/Meta-Llama-3.1-70B-Instruct-Turbo" -> 90
    [] m = "togetherai/Qwen/Qwen2.5-72B-Instruct" -> 90
    [] m = "togetherai/mistralai/Mixtral-8x7B-Instruct-v0.1" -> 60

\* MODEL_CONFIGS[m].cost.output, in cents
CostOutput(m) ==
  CASE m = "openai/gpt-4o" -> 1500
    [] m = "openai/gpt-4-turbo" -> 3000
    [] m = "openai/gpt-4o-mini" -> 60
    [] m = "openai/gpt-3.5-turbo" -> 150
    [] m = "anthropic/claude-3-5-sonnet-20240620" -> 1500
    [] m = "anthropic/claude-3-opus-20240229" -> 7500
    [] m = "anthropic/claude-3-haiku-20240307" -> 125
    [] m = "anthropic/claude-3-5-haiku-20241022" -> 500
    [] m = "google/gemini-1.5-pro-latest" -> 1050
    [] m = "google/gemini-1.5-flash-latest" -> 105
    [] m = "mistral/mistral-large-latest" -> 1200
    [] m = "mistral/mistral-small-latest" -> 300
    [] m = "mistral/open-mixtral-8x7b" -> 70
    [] m = "togetherai/meta-llama/Meta-Llama-3.1-70B-Instruct-Turbo" -> 90
    [] m = "togetherai/Qwen/Qwen2.5-72B-Instruct" -> 90
    [] m = "togetherai/mistralai/Mixtral-8x7B-Instruct-v0.1" -> 60

\* m.split('/')
Segments(m) ==
  CASE m = "openai/gpt-4o" -> << "openai", "gpt-4o" >>
    [] m = "openai/gpt-4-turbo" -> << "openai", "gpt-4-turbo" >>
    [] m = "openai/gpt-4o-mini" -> << "openai", "gpt-4o-mini" >>
    [] m = "openai/gpt-3.5-turbo" -> << "openai", "gpt-3.5-turbo" >>
    [] m = "anthropic/claude-3-5-sonnet-20240620" ->
         << "anthropic", "claude-3-5-sonnet-20240620" >>
    [] m = "anthropic/claude-3-opus-20240229" -> << "anthropic", "claude-3-opus-20240229" >>
    [] m = "anthropic/claude-3-haiku-20240307" ->
         << "anthropic", "claude-3-haiku-20240307" >>
    [] m = "anthropic/claude-3-5-haiku-20241022" ->
         << "anthropic", "claude-3-5-haiku-20241022" >>
    [] m = "google/gemini-1.5-pro-latest" -> << "google", "gemini-1.5-pro-latest" >>
    [] m = "google/gemini-1.5-flash-latest" -> << "google", "gemini-1.5-flash-latest" >>
    [] m = "mistral/mistral-large-latest" -> << "mistral", "mistral-large-latest" >>
    [] m = "mistral/mistral-small-latest" -> << "mistral", "mistral-small-latest" >>
    [] m = "mistral/open-mixtral-8x7b" -> << "mistral", "open-mixtral-8x7b" >>
    [] m = "togetherai/meta-llama/Meta-Llama-3.1-70B-Instruct-Turbo" ->
         << "togetherai", "meta-llama", "Meta-Llama-3.1-70B-Instruct-Turbo" >>
    [] m = "togetherai/Qwen/Qwen2.5-72B-Instruct" ->
         << "togetherai", "Qwen", "Qwen2.5-72B-Instruct" >>
    [] m = "togetherai/mistralai/Mixtral-8x7B-Instruct-v0.1" ->
         << "togetherai", "mistralai", "Mixtral-8x7B-Instruct-v0.1" >>
    [] OTHER -> << m >>

\* m.model.split('/')[1] || m.model (line 146)
ShortName(m) == IF Len(Segments(m)) >= 2 THEN Segments(m)[2] ELSE m

\* key.endsWith(text), for a text without "/": no text the model handles is a
\* proper end of the last segment of a catalog name
EndsWith(key, text) == text = Segments(key)[Len(Segments(key))]

\* key.startsWith(provider)
StartsWith(key, provider) == NamePrefix(key) = provider

\* the usage of a result; `reported` is FALSE for a result without usage
NoUsage == [reported |-> FALSE, prompt_tokens |-> 0, completion_tokens |-> 0]

\* { prompt_tokens: 500, completion_tokens: 150 }
EstimateUsage == [reported |-> TRUE, prompt_tokens |-> 500, completion_tokens |-> 150]

\* (tokens / 1_000_000) * price
TokenCost(tokens, cents) == 6 * tokens * cents

\* a cost that subtracts the output cost
calculateActualCostNet(modelName, usage) ==
  IF modelName \notin Range(AllModelNames) \/ ~usage.reported THEN 0
  ELSE TokenCost(usage.prompt_tokens, CostInput(modelName))
         - TokenCost(usage.completion_tokens, CostOutput(modelName))

calculateActualCost(modelName, usage) ==
  IF modelName \notin Range(AllModelNames) \/ ~usage.reported THEN 0
  ELSE TokenCost(usage.prompt_tokens, CostInput(modelName))
         + TokenCost(usage.completion_tokens, CostOutput(modelName))

RECURSIVE SumCost(_, _)
\* names.reduce((sum, modelName) => sum + calculateActualCost(modelName, usage), 0)
SumCost(names, usage) ==
  IF names = <<>> THEN 0
  ELSE calculateActualCost(Head(names), usage) + SumCost(Tail(names), usage)

\* the estimatedCost of routePrompt (lines 94-96)
estimatedCost(selectedModelNames) ==
  IF Len(selectedModelNames) > 0
    THEN SumCost(selectedModelNames, EstimateUsage) \div Len(selectedModelNames)
    ELSE 0

(***************************************************************************)
(* Texts.  A prompt is a sequence of phrases, joined by single spaces; the  *)
(* vocabulary holds, for every pattern of classifyPrompt, phrases that     *)
(* match it and phrases that do not.                                       *)
(***************************************************************************)
LongText == "<a text of 251 characters>"

WhitespacePhrases == {" ", "\n"}

Vocabulary ==
  WhitespacePhrases \cup
  { "hello", "Olympics", "Summarize", "summarize", "key points", "calculate",
    "Theorem", "2024", "x^2", "2+2", "-", "def ", "Function ", "fix", "Python",
    "translate", "in french", "analyze", "story", "poem", "explain in detail",
    "?", "what is", "What is", LongText }

\* String.prototype.toLowerCase on one phrase
ToLowerCase(t) ==
  CASE t = "Summarize" -> "summarize"
    [] t = "Olympics" -> "olympics"
    [] t = "Theorem" -> "theorem"
    [] t = "Function " -> "function "
    [] t = "Python" -> "python"
    [] t = "What is" -> "what is"
    [] t = "Explain in detail" -> "explain in detail"
    [] t = "Write" -> "write"
    [] OTHER -> t

\* String.prototype.length of one phrase
PhraseLength(t) ==
  CASE t = LongText -> 251
    [] t \in {" ", "\n", "-", "?"} -> 1
    [] t \in {"x^2", "2+2", "fix"} -> 3
    [] t \in {"2024", "def ", "poem"} -> 4
    [] t \in {"hello", "story", "Write", "fetch", "robot"} -> 5
    [] t \in {"Python"} -> 6
    [] t \in {"Theorem", "analyze", "what is", "What is", "capital"} -> 7
    [] t \in {"Olympics", "integral"} -> 8
    [] t \in {"Summarize", "summarize", "calculate", "translate", "Function ",
              "function ", "in french"} -> 9
    [] t \in {"key points", "relativity"} -> 10
    [] t \in {"explain in detail", "Explain in detail"} -> 17
    [] OTHER -> 0

RECURSIVE SumLength(_)
SumLength(prompt) ==
  IF prompt = <<>> THEN 0 ELSE PhraseLength(Head(prompt)) + SumLength(Tail(prompt))

\* prompt.length: the phrases and the single spaces that join them
PromptLength(prompt) ==
  IF prompt = <<>> THEN 0 ELSE SumLength(prompt) + (Len(prompt) - 1)

\* IsBlank without the trim: only the empty text is rejected
IsBlankWithoutTrim(prompt) == prompt = <<>>

\* the check of the prompt left out
IsBlankNever(prompt) == FALSE

\* !prompt || !prompt.trim()
IsBlank(prompt) == \A i \in 1..Len(prompt) : prompt[i] \in WhitespacePhrases

\* regex.test(prompt) for a regex that is an alternation of the phrases in `words`
Matches(prompt, words) == \E i \in 1..Len(prompt) : prompt[i] \in words

\* regex.test(prompt.toLowerCase())
MatchesLower(prompt, words) == \E i \in 1..Len(prompt) : ToLowerCase(prompt[i]) \in words

\* the character-class regex of the math rule: the phrases that hold a digit
\* or one of + - * / =
DigitOrOperatorPhrases == {"2024", "x^2", "2+2", "-"}

MathKeywords == {"calculate", "solve", "equation", "math", "logic", "proof", "theorem"}

\* the code-marker regex (triple backquote, def , function , class , import , a tag),
\* tested on the prompt as typed
CodeFence == "<three backquotes>"

CodeMarkers == {CodeFence, "def ", "function ", "class ", "import ", "<div>"}

CodeKeywords == {"code", "python", "javascript", "react", "sql", "debug", "fix", "implement"}

SummaryKeywords == {"summarize", "tldr", "brief", "outline", "key points", "recap"}

TranslationKeywords == {"translate", "in french", "in spanish", "in german"}

AnalysisKeywords == {"analyze", "analysis", "compare", "contrast", "evaluate", "assess"}

CreativeKeywords == {"story", "poem", "creative", "narrative", "write a scene"}

ComplexKeywords == {"explain in detail", "comprehensive", "thorough", "elaborate"}

SimpleMarkers == {"?", "what is", "how to", "who was", "why does"}

ComplexLength == 250

\* classifyPrompt whose final return gives the category of the rule before it
classifyPromptSimpleByDefault(prompt) ==
  IF MatchesLower(prompt, MathKeywords) \/ Matches(prompt, DigitOrOperatorPhrases)
    THEN "math_logic"
  ELSE IF Matches(prompt, CodeMarkers) \/ MatchesLower(prompt, CodeKeywords)
    THEN "code_generation"
  ELSE IF MatchesLower(prompt, SummaryKeywords) THEN "summarization"
  ELSE IF MatchesLower(prompt, TranslationKeywords) THEN "translation"
  ELSE IF MatchesLower(prompt, AnalysisKeywords) THEN "analysis"
  ELSE IF MatchesLower(prompt, CreativeKeywords) THEN "creative_writing"
  ELSE IF PromptLength(prompt) > ComplexLength \/ MatchesLower(prompt, ComplexKeywords)
    THEN "qa_complex"
  ELSE IF MatchesLower(prompt, SimpleMarkers) THEN "qa_simple"
  ELSE "qa_simple"

\* classifyPrompt with the code rule tested before the math rule
classifyPromptCodeFirst(prompt) ==
  IF Matches(prompt, CodeMarkers) \/ MatchesLower(prompt, CodeKeywords)
    THEN "code_generation"
  ELSE IF MatchesLower(prompt, MathKeywords) \/ Matches(prompt, DigitOrOperatorPhrases)
    THEN "math_logic"
  ELSE IF MatchesLower(prompt, SummaryKeywords) THEN "summarization"
  ELSE IF MatchesLower(prompt, TranslationKeywords) THEN "translation"
  ELSE IF MatchesLower(prompt, AnalysisKeywords) THEN "analysis"
  ELSE IF MatchesLower(prompt, CreativeKeywords) THEN "creative_writing"
  ELSE IF PromptLength(prompt) > ComplexLength \/ MatchesLower(prompt, ComplexKeywords)
    THEN "qa_complex"
  ELSE IF MatchesLower(prompt, SimpleMarkers) THEN "qa_simple"
  ELSE "general_chat"

classifyPrompt(prompt) ==
  IF MatchesLower(prompt, MathKeywords) \/ Matches(prompt, DigitOrOperatorPhrases)
    THEN "math_logic"
  ELSE IF Matches(prompt, CodeMarkers) \/ MatchesLower(prompt, CodeKeywords)
    THEN "code_generation"
  ELSE IF MatchesLower(prompt, SummaryKeywords) THEN "summarization"
  ELSE IF MatchesLower(prompt, TranslationKeywords) THEN "translation"
  ELSE IF MatchesLower(prompt, AnalysisKeywords) THEN "analysis"
  ELSE IF MatchesLower(prompt, CreativeKeywords) THEN "creative_writing"
  ELSE IF PromptLength(prompt) > ComplexLength \/ MatchesLower(prompt, ComplexKeywords)
    THEN "qa_complex"
  ELSE IF MatchesLower(prompt, SimpleMarkers) THEN "qa_simple"
  ELSE "general_chat"

(***************************************************************************)
(* An error text is the set of the phrases it holds.                       *)
(***************************************************************************)
EmptyResponseText == "API returned an empty or invalid response."
NoProviderText == "Routing was successful, but no model provider was returned."

\* errorMessage.toLowerCase(), phrase by phrase
ErrToLowerCase(t) ==
  CASE t = "QUOTA" -> "quota"
    [] t = "Billing" -> "billing"
    [] t = "Anthropic" -> "anthropic"
    [] t = "OpenAI" -> "openai"
    [] t = "Rate limit" -> "rate limit"
    [] t = EmptyResponseText -> "api returned an empty or invalid response."
    [] t = NoProviderText -> "routing was successful, but no model provider was returned."
    [] OTHER -> t

\* the words the catch block looks for that occur in a lower-case phrase
WordsIn(t) ==
  CASE t = "togetherai" -> {"together"}
    [] t = "credits" -> {"credit"}
    [] t \in {"credit", "quota", "billing", "429", "402", "insufficient funds",
              "rate limit", "anthropic", "openai", "google", "mistral",
              "together"} -> {t}
    [] OTHER -> {}

\* errorString.includes(word), errorString being the lower-cased message
Includes(errorMessage, word) ==
  \E t \in errorMessage : word \in WordsIn(ErrToLowerCase(t))

(***************************************************************************)
(* Health tracker                                                          *)
(***************************************************************************)
\* ProviderHealth.timeoutUntil of an entry that has none
NoTimeout == -1

FailureThreshold == 3

CooldownMs == 5 * 60 * 1000

\* providerHealth.get(provider) || { failureCount: 0 }
StatusOf(h, provider) ==
  IF provider \in DOMAIN h THEN h[provider]
  ELSE [failureCount |-> 0, timeoutUntil |-> NoTimeout]

\* reportFailure that writes back the entry it counted into a Map of its own,
\* so that what other calls recorded meanwhile is lost
reportFailureLosingUpdates(h, provider, t) ==
  LET status == StatusOf(h, provider)
      count  == status.failureCount + 1
  IN  [q \in {provider} |->
         [failureCount |-> count,
          timeoutUntil |-> IF count >= FailureThreshold THEN t + CooldownMs
                           ELSE status.timeoutUntil]]

\* reportFailure that starts the cooldown one failure late
reportFailureLateCooldown(h, provider, t) ==
  LET status == StatusOf(h, provider)
      count  == status.failureCount + 1
      after  == [failureCount |-> count,
                 timeoutUntil |-> IF count > FailureThreshold THEN t + CooldownMs
                                  ELSE status.timeoutUntil]
  IN  [q \in DOMAIN h \cup {provider} |-> IF q = provider THEN after ELSE h[q]]

\* reportFailure that starts the cooldown at the second failure
reportFailureEarlyCooldown(h, provider, t) ==
  LET status == StatusOf(h, provider)
      count  == status.failureCount + 1
      after  == [failureCount |-> count,
                 timeoutUntil |-> IF count >= FailureThreshold - 1 THEN t + CooldownMs
                                  ELSE status.timeoutUntil]
  IN  [q \in DOMAIN h \cup {provider} |-> IF q = provider THEN after ELSE h[q]]

\* reportFailure that counts afresh once a cooldown has run out
reportFailureAfterExpiryFromOne(h, provider, t) ==
  LET status == StatusOf(h, provider)
      expired == status.timeoutUntil # NoTimeout /\ status.timeoutUntil <= t
      count  == IF expired THEN 1 ELSE status.failureCount + 1
      after  == [failureCount |-> count,
                 timeoutUntil |-> IF count >= FailureThreshold THEN t + CooldownMs
                                  ELSE IF expired THEN NoTimeout
                                  ELSE status.timeoutUntil]
  IN  [q \in DOMAIN h \cup {provider} |-> IF q = provider THEN after ELSE h[q]]

\* reportFailure that counts the failure against every provider on record too
reportFailureBlamingAll(h, provider, t) ==
  [q \in DOMAIN h \cup {provider} |->
     LET count == StatusOf(h, q).failureCount + 1
     IN  [failureCount |-> count,
          timeoutUntil |-> IF count >= FailureThreshold THEN t + CooldownMs
                           ELSE StatusOf(h, q).timeoutUntil]]

\* the Map after reportFailure(provider) at time t
reportFailure(h, provider, t) ==
  LET status == StatusOf(h, provider)
      count  == status.failureCount + 1
      after  == [failureCount |-> count,
                 timeoutUntil |-> IF count >= FailureThreshold THEN t + CooldownMs
                                  ELSE status.timeoutUntil]
  IN  [q \in DOMAIN h \cup {provider} |-> IF q = provider THEN after ELSE h[q]]

\* reportSuccess that records a clean entry for a provider that has none
reportSuccessCreatingEntry(h, provider) ==
  [q \in DOMAIN h \cup {provider} |->
     IF q = provider THEN [failureCount |-> 0, timeoutUntil |-> NoTimeout] ELSE h[q]]

\* reportSuccess that is never recorded
reportSuccessForgotten(h, provider) == h

\* reportSuccess that resets the count and leaves the cooldown in place
reportSuccessKeepingTimeout(h, provider) ==
  IF provider \in DOMAIN h THEN [h EXCEPT ![provider].failureCount = 0] ELSE h

\* reportSuccess that resets the entry of every provider on record
reportSuccessClearingAll(h, provider) ==
  IF provider \in DOMAIN h
    THEN [q \in DOMAIN h |-> [failureCount |-> 0, timeoutUntil |-> NoTimeout]]
    ELSE h

\* the Map after reportSuccess(provider)
reportSuccess(h, provider) ==
  IF provider \in DOMAIN h
    THEN [h EXCEPT ![provider] = [failureCount |-> 0, timeoutUntil |-> NoTimeout]]
    ELSE h

\* a cooldown that lasts as long as the failure count stays at the threshold
isTimedOutByCount(h, provider, t) ==
  /\ provider \in DOMAIN h
  /\ h[provider].timeoutUntil # NoTimeout
  /\ h[provider].failureCount >= FailureThreshold

\* health?.timeoutUntil && health.timeoutUntil > new Date()
isTimedOut(h, provider, t) ==
  /\ provider \in DOMAIN h
  /\ h[provider].timeoutUntil # NoTimeout
  /\ h[provider].timeoutUntil > t

(***************************************************************************)
(* State                                                                   *)
(***************************************************************************)
VARIABLES
  providerHealth,     \* the Map provider -> {failureCount, timeoutUntil}
  now,                \* Date.now()
  env,                \* the names of the environment variables that are set
  pc,                 \* where the invocation of getModelResponseWithRouting stands
  prompt,             \* its arguments
  priority,
  customRules,
  attempt,            \* the loop counter
  excludedProviders,  \* the exclusion list of the invocation
  routingDecision,    \* the local routingDecision
  errorMessage,       \* the message of the error caught
  response,           \* the ModelResponse returned
  sent,               \* the candidates of the latest notDiamond.create call
  result,             \* the result of the latest notDiamond.create call that succeeded
  calls,              \* the number of notDiamond.create calls of the invocation
  invocations,        \* the number of invocations started
  lastOp,             \* the latest health-tracker operation
  streak,             \* per provider, reportFailure calls since the last reportSuccess
  failures,           \* the number of failed completion calls so far
  opsDone,            \* the number of direct health-tracker operations
  firstCall           \* the first of two calls of routePrompt: what it returned and
                      \* the tracker and the clock it read

vars == << providerHealth, now, env, pc, prompt, priority, customRules, attempt,
           excludedProviders, routingDecision, errorMessage, response, sent, result,
           calls, invocations, lastOp, streak, failures, opsDone, firstCall >>

\* the arguments of the invocation
argVars == << prompt, priority, customRules >>

\* everything but the tracker, the clock and the environment
invocationVars == << pc, argVars, attempt, excludedProviders, routingDecision,
                     errorMessage, response, sent, result, calls, invocations,
                     failures >>

\* the bookkeeping of the tracker operations
bookVars == << lastOp, streak, opsDone, firstCall >>

(***************************************************************************)
(* Inputs of the model                                                     *)
(***************************************************************************)
AllKeys == {"NOTDIAMOND_API_KEY", "OPENAI_API_KEY", "ANTHROPIC_API_KEY",
            "GOOGLE_API_KEY", "MISTRAL_API_KEY", "TOGETHER_API_KEY"}

EnvConfigs ==
  { AllKeys,
    {"NOTDIAMOND_API_KEY", "MISTRAL_API_KEY"},
    {"NOTDIAMOND_API_KEY"},
    AllKeys \ {"NOTDIAMOND_API_KEY"} }

\* the requests of the model: (prompt, priority, customRules)
NoRules == [t \in {} |-> <<>>]

ChatRules ==
  [t \in {"general_chat"} |->
     << "mistral/mistral-small-latest", "no-such-model", "openai/gpt-4o" >>]

\* an override that names six models
LongRules ==
  [t \in {"general_chat"} |->
     << "openai/gpt-4o", "openai/gpt-4o-mini", "anthropic/claude-3-haiku-20240307",
        "google/gemini-1.5-flash-latest", "mistral/mistral-small-latest",
        "togetherai/Qwen/Qwen2.5-72B-Instruct" >>]

SampleRequests ==
  { << <<>>, "cost", NoRules >>,
    << <<" ", "\n">>, "quality", ChatRules >>,
    << <<"hello">>, "cost", NoRules >>,
    << <<"hello">>, "cost", ChatRules >>,
    << <<"hello">>, "quality", LongRules >>,
    << <<"def ", "fix">>, "cost", NoRules >>,
    << <<"def ", "fix">>, "quality", ChatRules >> }

\* the error texts the completion service answers with
SampleErrors ==
  { {"429"}, {"402"}, {"timeout"}, {EmptyResponseText},
    {"429", "rate limit", "anthropic"}, {"credits", "mistral"},
    {"QUOTA", "togetherai"}, {"Billing", "OpenAI"} }

\* the providers the direct tracker operations are applied to
ProbeProviders == {"openai", "mistral"}

(***************************************************************************)
(* Helper functions of llmActions.ts                                       *)
(***************************************************************************)
potentialProviders == << "openai", "anthropic", "google", "mistral", "togetherai" >>

\* `${provider.toUpperCase()}_API_KEY`.replace('TOGETHERAI', 'TOGETHER')
EnvVarOf(provider) ==
  CASE provider = "openai" -> "OPENAI_API_KEY"
    [] provider = "anthropic" -> "ANTHROPIC_API_KEY"
    [] provider = "google" -> "GOOGLE_API_KEY"
    [] provider = "mistral" -> "MISTRAL_API_KEY"
    [] provider = "togetherai" -> "TOGETHER_API_KEY"

\* IsKept without the health check
IsKeptIgnoringHealth(provider, excludeProviders) ==
  /\ EnvVarOf(provider) \in env
  /\ provider \notin Range(excludeProviders)

\* IsKept without the test of the environment variable
IsKeptWithoutCredential(provider, excludeProviders) ==
  /\ provider \notin Range(excludeProviders)
  /\ ~isTimedOut(providerHealth, provider, now)

\* the condition under which the loop of getAvailableProviders keeps a provider
IsKept(provider, excludeProviders) ==
  /\ EnvVarOf(provider) \in env
  /\ provider \notin Range(excludeProviders)
  /\ ~isTimedOut(providerHealth, provider, now)

\* allModelNames.filter(k => k.startsWith(`${provider}/`)).map(m => ({provider, model: m}))
ModelsOf(provider) ==
  LET names == SelectSeq(AllModelNames, LAMBDA k : NamePrefix(k) = provider)
  IN  [i \in 1..Len(names) |-> [provider |-> provider, model |-> names[i]]]

getAvailableProviders(excludeProviders) ==
  Concat([i \in 1..Len(potentialProviders) |->
            IF IsKept(potentialProviders[i], excludeProviders)
              THEN ModelsOf(potentialProviders[i]) ELSE <<>>])

maxSelected == 3

\* a selection that takes the available models from the end of the list
routePromptLastFirst(text, prio, excludeProviders) ==
  LET promptType == classifyPrompt(text)
      availableProviders == getAvailableProviders(excludeProviders)
      availableModels == {availableProviders[i].model : i \in 1..Len(availableProviders)}
      recommendedModels == DEFAULT_ROUTING_RULES(promptType, prio)
      kept == SelectSeq(recommendedModels, LAMBDA m : m \in availableModels)
      selectedModelNames == Slice([i \in 1..Len(kept) |-> kept[Len(kept) + 1 - i]],
                                  maxSelected)
  IN  [ promptType |-> promptType,
        selectedModels |-> [i \in 1..Len(selectedModelNames) |->
                              [provider |-> ConfigProvider(selectedModelNames[i]),
                               model |-> selectedModelNames[i]]],
        customApplied |-> FALSE,
        estimatedCost |-> estimatedCost(selectedModelNames),
        priority |-> prio ]

\* a selection that leaves the first available model to the first call
routePromptTakingTurns(text, prio, excludeProviders) ==
  LET promptType == classifyPrompt(text)
      availableProviders == getAvailableProviders(excludeProviders)
      availableModels == {availableProviders[i].model : i \in 1..Len(availableProviders)}
      recommendedModels == DEFAULT_ROUTING_RULES(promptType, prio)
      kept == SelectSeq(recommendedModels, LAMBDA m : m \in availableModels)
      selectedModelNames ==
        Slice(IF pc = "routed" /\ Len(kept) > 1 THEN Tail(kept) ELSE kept, maxSelected)
  IN  [ promptType |-> promptType,
        selectedModels |-> [i \in 1..Len(selectedModelNames) |->
                              [provider |-> ConfigProvider(selectedModelNames[i]),
                               model |-> selectedModelNames[i]]],
        customApplied |-> FALSE,
        estimatedCost |-> estimatedCost(selectedModelNames),
        priority |-> prio ]

routePrompt(text, prio, excludeProviders) ==
  LET promptType == classifyPrompt(text)
      availableProviders == getAvailableProviders(excludeProviders)
      availableModels == {availableProviders[i].model : i \in 1..Len(availableProviders)}
      recommendedModels == DEFAULT_ROUTING_RULES(promptType, prio)
      selectedModelNames ==
        Slice(SelectSeq(recommendedModels, LAMBDA m : m \in availableModels), maxSelected)
  IN  [ promptType |-> promptType,
        selectedModels |-> [i \in 1..Len(selectedModelNames) |->
                              [provider |-> ConfigProvider(selectedModelNames[i]),
                               model |-> selectedModelNames[i]]],
        customApplied |-> FALSE,
        estimatedCost |-> estimatedCost(selectedModelNames),
        priority |-> prio ]

\* {} as RoutingDecision
NoDecision ==
  [promptType |-> "undefined", selectedModels |-> <<>>, customApplied |-> FALSE,
   priority |-> "undefined"]

RECURSIVE FindAll(_, _)
\* names.map(n => available.find(p => p.model === n)).filter(Boolean)
FindAll(names, available) ==
  IF names = <<>> THEN <<>>
  ELSE LET hits == {i \in 1..Len(available) : available[i].model = Head(names)}
           first == CHOOSE i \in hits : \A j \in hits : i <= j
       IN  (IF hits = {} THEN <<>> ELSE << available[first] >>)
             \o FindAll(Tail(names), available)

\* customModels resolved against the providers available with nothing excluded
customModelsIgnoringExclusions(decision, rules, excludeProviders) ==
  FindAll(rules[decision.promptType], getAvailableProviders(<<>>))

\* the list the custom rules resolve to (lines 127-130)
customModels(decision, rules, excludeProviders) ==
  FindAll(rules[decision.promptType], getAvailableProviders(excludeProviders))

\* custom rules that add their models to the default selection
applyCustomRulesKeepingDefault(decision, rules, excludeProviders) ==
  IF decision.promptType \in DOMAIN rules
    THEN LET found == customModels(decision, rules, excludeProviders)
         IN  IF Len(found) > 0
               THEN [decision EXCEPT !.selectedModels = @ \o found,
                                     !.customApplied = TRUE]
               ELSE decision
    ELSE decision

\* the custom-rule step of getModelResponseWithRouting
applyCustomRules(decision, rules, excludeProviders) ==
  IF decision.promptType \in DOMAIN rules
    THEN LET found == customModels(decision, rules, excludeProviders)
         IN  IF Len(found) > 0
               THEN [decision EXCEPT !.selectedModels = found, !.customApplied = TRUE]
               ELSE decision
    ELSE decision

maxAttempts == 5

\* a loop that forgets to count the attempt
nextAttemptStuck(a) == a

\* attempt++ of the for loop
nextAttempt(a) == a + 1

\* the empty-list check left out
noModelsLeftNever(decision) == FALSE

\* routingDecision.selectedModels.length === 0 (line 137)
noModelsLeft(decision) == Len(decision.selectedModels) = 0

\* routingDecision.selectedModels?.[0]?.provider
firstProviderOf(decision) ==
  IF Len(decision.selectedModels) > 0 THEN decision.selectedModels[1].provider
  ELSE Undefined

isBillingError(message) ==
  \/ Includes(message, "credit")
  \/ Includes(message, "quota")
  \/ Includes(message, "billing")
  \/ Includes(message, "429")

\* the provider the catch block blames for a billing error
failedProviderOf(message, firstProvider) ==
  IF Includes(message, "anthropic") THEN "anthropic"
  ELSE IF Includes(message, "openai") THEN "openai"
  ELSE IF Includes(message, "google") THEN "google"
  ELSE IF Includes(message, "mistral") THEN "mistral"
  ELSE IF Includes(message, "together") THEN "togetherai"
  ELSE firstProvider

\* a retry that excludes the provider whether or not it is excluded already
shouldRetryAgain(message, firstProvider, excluded) ==
  /\ isBillingError(message)
  /\ failedProviderOf(message, firstProvider) # Undefined

\* the condition of `excludedProviders.push(failedProvider); continue`
shouldRetry(message, firstProvider, excluded) ==
  /\ isBillingError(message)
  /\ failedProviderOf(message, firstProvider) # Undefined
  /\ failedProviderOf(message, firstProvider) \notin Range(excluded)

NoResponse ==
  [status |-> "pending", error |-> "", detail |-> {}, routingDecision |-> NoDecision,
   provider |-> Undefined]

\* the error thrown to the caller instead of being returned
ErrorRethrown(error, detail, decision) ==
  [status |-> "uncaught", error |-> error, detail |-> detail, routingDecision |-> decision,
   provider |-> Undefined]

ErrorResponse(error, detail, decision) ==
  [status |-> "error", error |-> error, detail |-> detail, routingDecision |-> decision,
   provider |-> Undefined]

\* no result yet
NoResult == [providers |-> <<>>, usage |-> NoUsage]

\* the usages the completion service reports
SampleUsages ==
  { NoUsage,
    [reported |-> TRUE, prompt_tokens |-> 1200, completion_tokens |-> 300],
    [reported |-> TRUE, prompt_tokens |-> -5, completion_tokens |-> 0] }

\* the entry of result.providers for the candidate the service used, named as it
\* was sent (line 146)
ModelUsed(candidate) ==
  [provider |-> candidate.provider, model |-> ShortName(candidate.model)]

\* Object.keys(MODEL_CONFIGS).find(key => key.endsWith(modelUsed.model) &&
\*                                      key.startsWith(modelUsed.provider))
fullModelName(modelUsed) ==
  LET hits == {k \in 1..Len(AllModelNames) :
                 /\ EndsWith(AllModelNames[k], modelUsed.model)
                 /\ StartsWith(AllModelNames[k], modelUsed.provider)}
  IN  IF hits = {} THEN Undefined
      ELSE AllModelNames[CHOOSE k \in hits : \A j \in hits : k <= j]

\* lines 161-163
actualCost(modelUsed, usage, decision) ==
  IF usage.reported /\ fullModelName(modelUsed) # Undefined
    THEN calculateActualCost(fullModelName(modelUsed), usage)
    ELSE decision.estimatedCost

SuccessResponse(used, decision, usage) ==
  [status |-> "success", error |-> "", detail |-> {}, routingDecision |-> decision,
   provider |-> used.provider, actualCost |-> actualCost(used, usage, decision)]

(***************************************************************************)
(* Bookkeeping of the tracker operations (not program state)               *)
(***************************************************************************)
NoOp == [op |-> "none", provider |-> Undefined, at |-> 0, wasTimedOut |-> FALSE]

\* the record of operation `op` on `provider`, applied now
OpRecord(op, provider) ==
  [op |-> op, provider |-> provider, at |-> now,
   wasTimedOut |-> isTimedOut(providerHealth, provider, now)]

StreakAfterFailure(s, provider) == [s EXCEPT ![provider] = @ + 1]

StreakAfterSuccess(s, provider) == [s EXCEPT ![provider] = 0]

\* no call of routePrompt recorded
NoCall == [decision |-> NoDecision, providerHealth |-> [q \in {} |-> 0], now |-> 0]

(***************************************************************************)
(* Initial state: the module has just been loaded                          *)
(***************************************************************************)
Init ==
  /\ providerHealth = [q \in {} |-> 0]
  /\ now = 0
  /\ env \in EnvConfigs
  /\ pc = "idle"
  /\ prompt = <<>>
  /\ priority = "cost"
  /\ customRules = NoRules
  /\ attempt = 0
  /\ excludedProviders = <<>>
  /\ routingDecision = NoDecision
  /\ errorMessage = {}
  /\ response = NoResponse
  /\ sent = <<>>
  /\ result = NoResult
  /\ calls = 0
  /\ invocations = 0
  /\ lastOp = NoOp
  /\ streak = [q \in ProviderType |-> 0]
  /\ failures = 0
  /\ opsDone = 0
  /\ firstCall = NoCall

(***************************************************************************)
(* getModelResponseWithRouting, one action per stretch between awaits      *)
(***************************************************************************)
\* the call and lines 113-121: the two input checks, then the loop is entered
Start(text, prio, rules) ==
  /\ pc \in {"idle", "done"}
  /\ invocations < MaxInvocations
  /\ invocations' = invocations + 1
  /\ prompt' = text
  /\ priority' = prio
  /\ customRules' = rules
  /\ excludedProviders' = <<>>
  /\ routingDecision' = NoDecision
  /\ errorMessage' = {}
  /\ sent' = <<>>
  /\ result' = NoResult
  /\ calls' = 0
  /\ IF IsBlank(text)
       THEN /\ response' = ErrorResponse("Prompt cannot be empty.", {}, NoDecision)
            /\ attempt' = 0
            /\ pc' = "done"
     ELSE IF "NOTDIAMOND_API_KEY" \notin env
       THEN /\ response' = ErrorResponse("NotDiamond API key is not configured.", {},
                                          NoDecision)
            /\ attempt' = 0
            /\ pc' = "done"
     ELSE /\ response' = NoResponse
          /\ attempt' = 1
          /\ pc' = "route"
  /\ UNCHANGED << providerHealth, now, env, failures, bookVars >>

\* line 124: routingDecision = await routePrompt(prompt, priority, excludedProviders)
Route ==
  /\ pc = "route"
  /\ routingDecision' = routePrompt(prompt, priority, excludedProviders)
  /\ pc' = "send"
  /\ UNCHANGED << providerHealth, now, env, argVars, attempt, excludedProviders,
                  errorMessage, response, sent, result, calls, invocations, failures,
                  bookVars >>

\* lines 126-147: custom rules, the empty-list return, the call of the service
Send ==
  /\ pc = "send"
  /\ LET decision == applyCustomRules(routingDecision, customRules, excludedProviders)
     IN  /\ routingDecision' = decision
         /\ IF noModelsLeft(decision)
              THEN /\ response' = ErrorResponse("No available models left", {}, decision)
                   /\ pc' = "done"
                   /\ UNCHANGED << sent, calls >>
              ELSE /\ sent' = decision.selectedModels
                   /\ calls' = calls + 1
                   /\ pc' = "calling"
                   /\ UNCHANGED response
  /\ UNCHANGED << providerHealth, now, env, argVars, attempt, excludedProviders,
                  errorMessage, result, invocations, failures, bookVars >>

\* lines 149-166: the service answers with the model it used
CallSucceeds(i, usage) ==
  /\ pc = "calling"
  /\ i \in 1..Len(sent)
  /\ result' = [providers |-> << ModelUsed(sent[i]) >>, usage |-> usage]
  /\ providerHealth' = reportSuccess(providerHealth, ModelUsed(sent[i]).provider)
  /\ lastOp' = OpRecord("reportSuccess", ModelUsed(sent[i]).provider)
  /\ streak' = StreakAfterSuccess(streak, ModelUsed(sent[i]).provider)
  /\ response' = SuccessResponse(ModelUsed(sent[i]), routingDecision, usage)
  /\ pc' = "done"
  /\ UNCHANGED << now, env, argVars, attempt, excludedProviders, routingDecision,
                  errorMessage, sent, calls, invocations, failures, opsDone,
                  firstCall >>

\* the service raises, or answers with a detail or without providers (lines 149-150);
\* the catch block starts (lines 169-172)
CallFails(message) ==
  /\ pc = "calling"
  /\ failures < MaxFailures
  /\ failures' = failures + 1
  /\ errorMessage' = message
  /\ pc' = "catchRoute"
  /\ UNCHANGED << providerHealth, now, env, argVars, attempt, excludedProviders,
                  routingDecision, response, sent, result, calls, invocations,
                  bookVars >>

\* line 172: routingDecision = await routePrompt(prompt, priority, excludedProviders)
CatchRoute ==
  /\ pc = "catchRoute"
  /\ routingDecision' = routePrompt(prompt, priority, excludedProviders)
  /\ pc' = "catchHandle"
  /\ UNCHANGED << providerHealth, now, env, argVars, attempt, excludedProviders,
                  errorMessage, response, sent, result, calls, invocations, failures,
                  bookVars >>

\* lines 175-200: reportFailure, then exclude-and-retry or return the error
CatchHandle ==
  /\ pc = "catchHandle"
  /\ LET firstProvider == firstProviderOf(routingDecision)
     IN  /\ IF firstProvider # Undefined
              THEN /\ providerHealth' = reportFailure(providerHealth, firstProvider, now)
                   /\ lastOp' = OpRecord("reportFailure", firstProvider)
                   /\ streak' = StreakAfterFailure(streak, firstProvider)
              ELSE UNCHANGED << providerHealth, lastOp, streak >>
         /\ IF shouldRetry(errorMessage, firstProvider, excludedProviders)
              THEN /\ excludedProviders' =
                        Append(excludedProviders,
                               failedProviderOf(errorMessage, firstProvider))
                   /\ attempt' = nextAttempt(attempt)
                   /\ pc' = IF nextAttempt(attempt) <= maxAttempts THEN "route" ELSE "final"
                   /\ UNCHANGED response
              ELSE /\ response' = ErrorResponse("Routing failed", errorMessage,
                                                routingDecision)
                   /\ pc' = "done"
                   /\ UNCHANGED << excludedProviders, attempt >>
  /\ errorMessage' = {}
  /\ UNCHANGED << now, env, argVars, routingDecision, sent, result, calls,
                  invocations, failures, opsDone, firstCall >>

\* lines 204-205: the loop ran out of attempts
Final ==
  /\ pc = "final"
  /\ routingDecision' = routePrompt(prompt, priority, excludedProviders)
  /\ response' = ErrorResponse("All routing attempts failed", {},
                               routePrompt(prompt, priority, excludedProviders))
  /\ pc' = "done"
  /\ UNCHANGED << providerHealth, now, env, argVars, attempt, excludedProviders,
                  errorMessage, sent, result, calls, invocations, failures,
                  bookVars >>

\* Time passes, while the service is awaited or between two invocations.  The clock
\* is read only to start a cooldown and to test one, so its value matters only
\* while a cooldown is set: it is advanced only then.
Tick ==
  /\ pc \in {"idle", "calling", "done"}
  /\ \E q \in DOMAIN providerHealth : providerHealth[q].timeoutUntil # NoTimeout
  /\ now + TickMs <= MaxTicks * TickMs
  /\ now' = now + TickMs
  /\ UNCHANGED << providerHealth, env, invocationVars, bookVars >>

Next ==
  \/ \E request \in SampleRequests : Start(request[1], request[2], request[3])
  \/ Route
  \/ Send
  \/ \E i \in 1..maxSelected, usage \in SampleUsages : CallSucceeds(i, usage)
  \/ \E message \in SampleErrors : CallFails(message)
  \/ CatchRoute
  \/ CatchHandle
  \/ Final
  \/ Tick

Spec == Init /\ [][Next]_vars

\* the completion service answers a call, with a result or with an error
ServiceAnswers ==
  \/ \E i \in 1..maxSelected, usage \in SampleUsages : CallSucceeds(i, usage)
  \/ \E message \in SampleErrors : CallFails(message)

\* the first invocations of the process, on which termination is checked
StartEarly(text, prio, rules) ==
  /\ invocations < MaxLiveInvocations
  /\ Start(text, prio, rules)

NextLive ==
  \/ \E request \in SampleRequests : StartEarly(request[1], request[2], request[3])
  \/ Route
  \/ Send
  \/ \E i \in 1..maxSelected, usage \in SampleUsages : CallSucceeds(i, usage)
  \/ \E message \in SampleErrors : CallFails(message)
  \/ CatchRoute
  \/ CatchHandle
  \/ Final
  \/ Tick

\* An invocation that can take a step of its own takes it (the event loop runs
\* every continuation that is ready), and the service answers every call.
SpecLive ==
  /\ Init /\ [][NextLive]_vars
  /\ WF_vars(Route) /\ WF_vars(Send) /\ WF_vars(CatchRoute) /\ WF_vars(CatchHandle)
  /\ WF_vars(Final) /\ WF_vars(ServiceAnswers)

(***************************************************************************)
(* The health tracker on its own: its operations applied in any order      *)
(***************************************************************************)
TrackerFailure(provider) ==
  /\ opsDone < MaxOps
  /\ opsDone' = opsDone + 1
  /\ providerHealth' = reportFailure(providerHealth, provider, now)
  /\ lastOp' = OpRecord("reportFailure", provider)
  /\ streak' = StreakAfterFailure(streak, provider)
  /\ UNCHANGED << now, env, invocationVars, firstCall >>

TrackerSuccess(provider) ==
  /\ opsDone < MaxOps
  /\ opsDone' = opsDone + 1
  /\ providerHealth' = reportSuccess(providerHealth, provider)
  /\ lastOp' = OpRecord("reportSuccess", provider)
  /\ streak' = StreakAfterSuccess(streak, provider)
  /\ UNCHANGED << now, env, invocationVars, firstCall >>

\* an observer starts counting the failures of a provider afresh (bookkeeping only)
Observe(provider) ==
  /\ streak[provider] > 0
  /\ streak' = [streak EXCEPT ![provider] = 0]
  /\ lastOp' = NoOp
  /\ UNCHANGED << providerHealth, now, env, opsDone, firstCall, invocationVars >>

NextHealth ==
  \/ \E provider \in ProbeProviders : TrackerFailure(provider)
  \/ \E provider \in ProbeProviders : TrackerSuccess(provider)
  \/ \E provider \in ProbeProviders : Observe(provider)
  \/ Tick

SpecHealth == Init /\ [][NextHealth]_vars

(***************************************************************************)
(* An invocation interleaved with other invocations.  reportFailure,       *)
(* reportSuccess and getAvailableProviders hold no await, so each runs to  *)
(* completion; what another invocation does to the shared Map between two  *)
(* await points of this one is a reportFailure or a reportSuccess.         *)
(***************************************************************************)
OtherFailure(provider) ==
  /\ opsDone < MaxOtherOps
  /\ TrackerFailure(provider)

OtherSuccess(provider) ==
  /\ opsDone < MaxOtherOps
  /\ TrackerSuccess(provider)

NextConcurrent ==
  \/ \E request \in SampleRequests : StartEarly(request[1], request[2], request[3])
  \/ Route
  \/ Send
  \/ \E i \in 1..maxSelected, usage \in SampleUsages : CallSucceeds(i, usage)
  \/ \E message \in SampleErrors : CallFails(message)
  \/ CatchRoute
  \/ CatchHandle
  \/ Final
  \/ Tick
  \/ \E provider \in ProbeProviders : OtherFailure(provider)
  \/ \E provider \in ProbeProviders : OtherSuccess(provider)

SpecConcurrent == Init /\ [][NextConcurrent]_vars

(***************************************************************************)
(* routePrompt called on its own (it is an exported server action), on     *)
(* every prompt of up to MaxPromptLen phrases: its first step is           *)
(* promptType = await classifyPrompt(prompt).                              *)
(***************************************************************************)
Prompts == UNION {[1..n -> Vocabulary] : n \in 0..MaxPromptLen}

\* the evaluation set of evaluation-script.ts, each prompt by the phrases of it
\* that the rules of classifyPrompt can tell apart
evaluationSet ==
  { [id |-> "sum_01", prompt |-> << "Summarize", "key points", "2024", "Olympics" >>,
     expectedType |-> "summarization"],
    [id |-> "code_01", prompt |-> << "Write", "function ", "fetch" >>,
     expectedType |-> "code_generation"],
    [id |-> "qa_c_01", prompt |-> << "Explain in detail", "relativity" >>,
     expectedType |-> "qa_complex"],
    [id |-> "math_01", prompt |-> << "What is", "integral", "x^2", "?" >>,
     expectedType |-> "math_logic"],
    [id |-> "creative_01", prompt |-> << "Write", "story", "robot" >>,
     expectedType |-> "creative_writing"],
    [id |-> "qa_s_01", prompt |-> << "What is", "capital", "?" >>,
     expectedType |-> "qa_simple"] }

EvaluationPrompts == {item.prompt : item \in evaluationSet}

InitClassify ==
  /\ providerHealth = [q \in {} |-> 0]
  /\ now = 0
  /\ env \in EnvConfigs
  /\ pc = "idle"
  /\ prompt \in Prompts \cup EvaluationPrompts
  /\ priority \in RoutingPriority
  /\ customRules = NoRules
  /\ attempt = 0
  /\ excludedProviders = <<>>
  /\ routingDecision = NoDecision
  /\ errorMessage = {}
  /\ response = NoResponse
  /\ sent = <<>>
  /\ result = NoResult
  /\ calls = 0
  /\ invocations = 0
  /\ lastOp = NoOp
  /\ streak = [q \in ProviderType |-> 0]
  /\ failures = 0
  /\ opsDone = 0
  /\ firstCall = NoCall

\* routePrompt(prompt, priority) returns its decision
RouteOnly ==
  /\ pc = "idle"
  /\ routingDecision' = routePrompt(prompt, priority, <<>>)
  /\ pc' = "routed"
  /\ UNCHANGED << providerHealth, now, env, argVars, attempt, excludedProviders,
                  errorMessage, response, sent, result, calls, invocations, failures,
                  bookVars >>

SpecClassify == InitClassify /\ [][RouteOnly]_vars

(***************************************************************************)
(* routePrompt called twice with the same arguments, while other           *)
(* invocations report failures to the tracker and time passes.             *)
(***************************************************************************)
RepeatPrompts == EvaluationPrompts \cup {<< "hello" >>, << "def ", "fix" >>}

InitRepeat ==
  /\ providerHealth = [q \in {} |-> 0]
  /\ now = 0
  /\ env \in EnvConfigs
  /\ pc = "idle"
  /\ prompt \in RepeatPrompts
  /\ priority \in RoutingPriority
  /\ customRules = NoRules
  /\ attempt = 0
  /\ excludedProviders \in {<<>>, << "anthropic" >>}
  /\ routingDecision = NoDecision
  /\ errorMessage = {}
  /\ response = NoResponse
  /\ sent = <<>>
  /\ result = NoResult
  /\ calls = 0
  /\ invocations = 0
  /\ lastOp = NoOp
  /\ streak = [q \in ProviderType |-> 0]
  /\ failures = 0
  /\ opsDone = 0
  /\ firstCall = NoCall

\* routePrompt(prompt, priority, excludedProviders) returns its decision
FirstCall ==
  /\ pc = "idle"
  /\ routingDecision' = routePrompt(prompt, priority, excludedProviders)
  /\ firstCall' = [decision |-> routePrompt(prompt, priority, excludedProviders),
                   providerHealth |-> providerHealth, now |-> now]
  /\ pc' = "routed"
  /\ UNCHANGED << providerHealth, now, env, argVars, attempt, excludedProviders,
                  errorMessage, response, sent, result, calls, invocations, failures,
                  lastOp, streak, opsDone >>

\* the same call once more
SecondCall ==
  /\ pc = "routed"
  /\ routingDecision' = routePrompt(prompt, priority, excludedProviders)
  /\ pc' = "routedAgain"
  /\ UNCHANGED << providerHealth, now, env, argVars, attempt, excludedProviders,
                  errorMessage, response, sent, result, calls, invocations, failures,
                  bookVars >>

NextRepeat ==
  \/ FirstCall
  \/ SecondCall
  \/ \E provider \in ProbeProviders : TrackerFailure(provider)
  \/ Tick

SpecRepeat == InitRepeat /\ [][NextRepeat]_vars

(***************************************************************************)
(* The exported operations that read or write the tracker, called in any   *)
(* order: reportFailure and reportSuccess (through the invocations that    *)
(* call them), getHealthStatus and routePrompt.                            *)
(***************************************************************************)
\* Object.fromEntries(providerHealth.entries()), returned to the caller
GetHealthStatus ==
  /\ response' = [status |-> "health", error |-> "", detail |-> {},
                  routingDecision |-> NoDecision, provider |-> Undefined,
                  health |-> providerHealth]
  /\ lastOp' = [op |-> "getHealthStatus", provider |-> Undefined, at |-> now,
                wasTimedOut |-> FALSE]
  /\ UNCHANGED << providerHealth, now, env, pc, argVars, attempt, excludedProviders,
                  routingDecision, errorMessage, sent, result, calls, invocations,
                  failures, streak, opsDone, firstCall >>

\* routePrompt(text, prio) returns its decision
RouteCall(text, prio) ==
  /\ prompt' = text
  /\ priority' = prio
  /\ routingDecision' = routePrompt(text, prio, <<>>)
  /\ lastOp' = [op |-> "routePrompt", provider |-> Undefined, at |-> now,
                wasTimedOut |-> FALSE]
  /\ UNCHANGED << providerHealth, now, env, pc, customRules, attempt,
                  excludedProviders, errorMessage, response, sent, result, calls,
                  invocations, failures, streak, opsDone, firstCall >>

NextOperations ==
  \/ \E provider \in ProbeProviders : TrackerFailure(provider)
  \/ \E provider \in ProbeProviders : TrackerSuccess(provider)
  \/ GetHealthStatus
  \/ \E request \in SampleRequests : RouteCall(request[1], request[2])
  \/ Tick

SpecOperations == Init /\ [][NextOperations]_vars

(***************************************************************************)
(* Properties                                                              *)
(***************************************************************************)
\* a candidate whose provider is neither excluded nor in cooldown
Eligible(candidate) ==
  /\ candidate.provider \notin Range(excludedProviders)
  /\ ~isTimedOut(providerHealth, candidate.provider, now)

\* the providers of the preference list of the request at hand
PreferredProviders ==
  {ConfigProvider(m) : m \in Range(DEFAULT_ROUTING_RULES(classifyPrompt(prompt), priority))}

\* C1: every model of the selectedModels returned by routePrompt, and of the list
\* sent to the completion service after the custom-rule step, belongs to a
\* provider that is not excluded for the call and not in cooldown.
C1_RoutedCandidatesEligible ==
  /\ pc \in {"send", "catchHandle"} =>
       \A i \in 1..Len(routingDecision.selectedModels) :
         Eligible(routingDecision.selectedModels[i])
  /\ pc = "calling" => \A i \in 1..Len(sent) : Eligible(sent[i])

\* a call is out while a preferred, credentialed provider is in cooldown and
\* another provider is excluded
C1_Witness ==
  /\ pc = "calling"
  /\ excludedProviders # <<>>
  /\ \E q \in PreferredProviders :
       /\ EnvVarOf(q) \in env
       /\ q \notin Range(excludedProviders)
       /\ isTimedOut(providerHealth, q, now)

\* C2: an invocation makes at most 5 completion calls, and the attempt counter
\* moves in step with them: it is one ahead of the calls before the call of an
\* attempt and equal to them from the call on.
C2_BoundedCalls ==
  /\ calls <= 5
  /\ pc \in {"route", "send", "final"} => calls = attempt - 1
  /\ pc \in {"calling", "catchRoute", "catchHandle"} => calls = attempt

\* five calls were made, every one failed, and the invocation gave up
C2_Witness ==
  /\ pc = "done"
  /\ calls = 5
  /\ response.error = "All routing attempts failed"

\* provider q is among the providers getAvailableProviders returns with nothing excluded
Routable(q) ==
  \E i \in 1..Len(getAvailableProviders(<<>>)) : getAvailableProviders(<<>>)[i].provider = q

\* C3: after three reportFailure(p) in a row p is not routable (for the 5 minutes
\* that follow); a reportSuccess(p) makes p routable again at once, whatever
\* the cooldown was.
C3_CircuitBreakerRoundTrip ==
  \A q \in ProviderType :
    /\ ( /\ lastOp.op = "reportFailure"
         /\ lastOp.provider = q
         /\ streak[q] >= 3
         /\ now < lastOp.at + 5 * 60 * 1000 )
       => (isTimedOut(providerHealth, q, now) /\ ~Routable(q))
    /\ ( /\ lastOp.op = "reportSuccess"
         /\ lastOp.provider = q )
       => ( /\ ~isTimedOut(providerHealth, q, now)
            /\ EnvVarOf(q) \in env => Routable(q) )

\* a reportSuccess has just been applied to a credentialed provider in cooldown
C3_Witness ==
  /\ lastOp.op = "reportSuccess"
  /\ lastOp.wasTimedOut
  /\ lastOp.at = now
  /\ EnvVarOf(lastOp.provider) \in env
  /\ Routable(lastOp.provider)

\* C4: no candidate list sent to the completion service holds a model of a
\* provider that an earlier attempt of the invocation excluded (the exclusion
\* list only grows during an invocation).
C4_ExcludedStayOut ==
  /\ pc = "calling" =>
       \A i \in 1..Len(sent) : sent[i].provider \notin Range(excludedProviders)
  /\ pc \in {"route", "send", "calling", "catchRoute", "catchHandle", "final"} =>
       Len(excludedProviders) = attempt - 1

\* attempt 2 is out after anthropic, credentialed and preferred, was excluded
C4_Witness ==
  /\ pc = "calling"
  /\ attempt = 2
  /\ excludedProviders = << "anthropic" >>
  /\ "anthropic" \in PreferredProviders
  /\ "ANTHROPIC_API_KEY" \in env

\* the provider an error text names, as the catch block reads it
NamedProvider(message) == failedProviderOf(message, Undefined)

\* the providers of the candidates of the latest call
SentProviders == {sent[i].provider : i \in 1..Len(sent)}

\* C5 (as claimed): when the failed call's error text names the provider of one
\* of the candidates sent, it is that provider's failureCount that goes up by
\* one, whatever its place in the list.
C5_NamedProviderReported ==
  [][ (pc = "catchHandle" /\ NamedProvider(errorMessage) \in SentProviders) =>
        StatusOf(providerHealth', NamedProvider(errorMessage)).failureCount
          = StatusOf(providerHealth, NamedProvider(errorMessage)).failureCount + 1 ]_vars

\* C6 (as claimed): when the error text names no provider, the provider whose
\* failureCount goes up, and the provider added to the exclusion list if one is
\* added, is the provider of the first candidate of the list that was sent.
C6_FirstSentCandidateBlamed ==
  [][ (pc = "catchHandle" /\ NamedProvider(errorMessage) = Undefined) =>
        /\ StatusOf(providerHealth', sent[1].provider).failureCount
             = StatusOf(providerHealth, sent[1].provider).failureCount + 1
        /\ excludedProviders' # excludedProviders =>
             excludedProviders' = Append(excludedProviders, sent[1].provider) ]_vars

ClaimedKeywords ==
  {"credit", "quota", "billing", "429", "402", "insufficient funds", "rate limit"}

\* C7 (as claimed): an error text that holds any one of the seven keywords is
\* classified as a provider-exhaustion error.
C7_EveryKeywordClassified ==
  pc \in {"catchRoute", "catchHandle"} =>
    ((\E k \in ClaimedKeywords : Includes(errorMessage, k)) => isBillingError(errorMessage))

\* the provider judged responsible for a failed call: the one the text names,
\* else the provider of the first candidate sent
Responsible(message) ==
  IF NamedProvider(message) # Undefined THEN NamedProvider(message)
  ELSE sent[1].provider

\* C8 (as claimed): after a failed call the loop goes back to routing, with
\* exactly the responsible provider added to the exclusion list, if and only if
\* the error is a provider-exhaustion error, that provider is not yet excluded
\* and the attempt is below 5; otherwise the invocation ends with an error.
C8_RetryExactlyWhenClaimed ==
  [][ pc = "catchHandle" =>
        IF /\ isBillingError(errorMessage)
           /\ Responsible(errorMessage) \notin Range(excludedProviders)
           /\ attempt < 5
          THEN /\ pc' = "route"
               /\ excludedProviders' =
                    Append(excludedProviders, Responsible(errorMessage))
          ELSE /\ pc' \in {"done", "final"}
               /\ pc' = "done" => response'.status = "error"
               /\ calls' = calls ]_vars

\* C9: when the candidate list is empty after the custom-rule step the invocation
\* ends there with the no-models error, which carries the routing decision, and
\* no call is made; otherwise the list is sent.
C9_EmptyListEndsInvocation ==
  [][ pc = "send" =>
        IF Len(routingDecision'.selectedModels) = 0
          THEN /\ pc' = "done"
               /\ response'.status = "error"
               /\ response'.error = "No available models left"
               /\ response'.routingDecision = routingDecision'
               /\ response'.routingDecision.promptType = classifyPrompt(prompt)
               /\ calls' = calls
          ELSE /\ pc' = "calling"
               /\ sent' = routingDecision'.selectedModels
               /\ calls' = calls + 1 ]_vars

\* the invocation ended at attempt 1 with the no-models error and without a call
C9_Witness ==
  /\ pc = "done"
  /\ response.error = "No available models left"
  /\ attempt = 1
  /\ calls = 0

\* the prompt of the invocation is empty or holds nothing but whitespace
EmptyOrWhitespaceOnly == \A i \in 1..Len(prompt) : prompt[i] \in {" ", "\n"}

\* C10: an empty or whitespace-only prompt, or a missing NOTDIAMOND_API_KEY, is
\* answered with its error before routing: the loop is not entered and no call
\* is made.
C10_InputErrorsRejected ==
  (invocations > 0 /\ (EmptyOrWhitespaceOnly \/ "NOTDIAMOND_API_KEY" \notin env)) =>
    /\ pc = "done"
    /\ response.status = "error"
    /\ response.error = IF EmptyOrWhitespaceOnly THEN "Prompt cannot be empty."
                        ELSE "NotDiamond API key is not configured."
    /\ response.routingDecision = NoDecision
    /\ attempt = 0
    /\ calls = 0
    /\ sent = <<>>

\* a whitespace-only prompt was rejected although the key is configured
C10_Witness ==
  /\ pc = "done"
  /\ prompt # <<>>
  /\ EmptyOrWhitespaceOnly
  /\ "NOTDIAMOND_API_KEY" \in env
  /\ response.error = "Prompt cannot be empty."

\* the value an invocation returned is a success that names the provider used,
\* or an error message with a routing decision
ReturnedValue ==
  \/ /\ response.status = "success"
     /\ response.provider \in ProviderType
     /\ response.routingDecision = routingDecision
  \/ /\ response.status = "error"
     /\ response.error # ""
     /\ response.routingDecision \in {NoDecision, routingDecision}

\* C11: every invocation terminates when the service answers every call, and it
\* terminates by returning a success or an error message with a routing
\* decision; a failure of the service is never left uncaught.
C11_InvocationTerminates ==
  /\ [](pc = "done" => ReturnedValue)
  /\ (pc \notin {"idle", "done"}) ~> (pc = "done")

\* an invocation returned an error after a call of the service had failed
C11_Witness ==
  /\ pc = "done"
  /\ calls > 0
  /\ response.status = "error"
  /\ response.detail # {}

\* C12 (as claimed): when an invocation ends with a service error or with its
\* attempts used up, the routing decision returned with the error holds exactly
\* the candidates sent in the last call.
C12_ErrorCarriesLastSentList ==
  ( /\ pc = "done"
    /\ calls > 0
    /\ response.status = "error"
    /\ response.error \in {"Routing failed", "All routing attempts failed"} )
  => response.routingDecision.selectedModels = sent

\* C13: when a call succeeds the invocation returns at once with a success, no
\* further call is made, and the provider the service reports as used has
\* failureCount 0 and no cooldown on return.
C13_SuccessResetsProvider ==
  [][ (pc = "calling" /\ pc' # "calling" /\ pc' # "catchRoute") =>
        /\ pc' = "done"
        /\ response'.status = "success"
        /\ response'.provider \in SentProviders
        /\ StatusOf(providerHealth', response'.provider).failureCount = 0
        /\ StatusOf(providerHealth', response'.provider).timeoutUntil = NoTimeout
        /\ calls' = calls ]_vars

\* a second attempt succeeded with a provider that had a failure on record
C13_Witness ==
  /\ pc = "done"
  /\ response.status = "success"
  /\ attempt = 2
  /\ lastOp.op = "reportSuccess"
  /\ lastOp.provider = response.provider
  /\ response.provider \in DOMAIN providerHealth
  /\ providerHealth[response.provider].failureCount = 0

\* C14: reportFailure(p) raises p's failureCount by exactly 1 (to 1 when p had no
\* entry) and leaves p with an entry; the cooldown becomes now + 5 minutes
\* exactly when the new count is at least 3 and is left as it was otherwise; no
\* other provider's entry changes.
C14_ReportFailureCounts ==
  [][ (lastOp'.op = "reportFailure" /\ providerHealth' # providerHealth) =>
        LET p == lastOp'.provider
            before == StatusOf(providerHealth, p)
        IN  /\ p \in DOMAIN providerHealth'
            /\ providerHealth'[p].failureCount = before.failureCount + 1
            /\ p \notin DOMAIN providerHealth => providerHealth'[p].failureCount = 1
            /\ providerHealth'[p].timeoutUntil =
                 IF before.failureCount + 1 >= 3 THEN now + 5 * 60 * 1000
                 ELSE before.timeoutUntil
            /\ before.failureCount + 1 < 3 => providerHealth'[p].timeoutUntil = NoTimeout
            /\ DOMAIN providerHealth' = DOMAIN providerHealth \cup {p}
            /\ \A q \in DOMAIN providerHealth \ {p} :
                 providerHealth'[q] = providerHealth[q] ]_vars

\* a fourth failure in a row, reported after the clock had moved, restarted the
\* cooldown from the time of the report
C14_Witness ==
  /\ lastOp.op = "reportFailure"
  /\ lastOp.at = now
  /\ now > 0
  /\ lastOp.wasTimedOut
  /\ providerHealth[lastOp.provider].failureCount = 4
  /\ providerHealth[lastOp.provider].timeoutUntil = now + CooldownMs

\* the effect of reportSuccess(p) on the tracker, as claimed
ResetsOrIgnores(p) ==
  IF p \in DOMAIN providerHealth
    THEN /\ DOMAIN providerHealth' = DOMAIN providerHealth
         /\ providerHealth'[p].failureCount = 0
         /\ providerHealth'[p].timeoutUntil = NoTimeout
         /\ \A q \in DOMAIN providerHealth \ {p} : providerHealth'[q] = providerHealth[q]
    ELSE providerHealth' = providerHealth

\* an entry appears only by a reportFailure for its provider
EntryOnlyByFailure ==
  DOMAIN providerHealth' # DOMAIN providerHealth =>
    /\ lastOp'.op = "reportFailure"
    /\ DOMAIN providerHealth' = DOMAIN providerHealth \cup {lastOp'.provider}

\* C15: the tracker starts without entries; reportSuccess(p) sets p's entry to
\* failureCount 0 without cooldown whatever it held, and changes nothing when p
\* has no entry; an entry appears only by a reportFailure for its provider.
C15_ReportSuccessResets ==
  /\ DOMAIN providerHealth = {}
  /\ [][ ((opsDone' = opsDone + 1 /\ lastOp'.op = "reportSuccess")
             => ResetsOrIgnores(lastOp'.provider))
          /\ EntryOnlyByFailure ]_vars

\* a reportSuccess has just reset an entry that held a running cooldown, while
\* the other provider, never reported as failed, still has no entry
C15_Witness ==
  /\ lastOp.op = "reportSuccess"
  /\ lastOp.wasTimedOut
  /\ lastOp.provider \in DOMAIN providerHealth
  /\ providerHealth[lastOp.provider] = [failureCount |-> 0, timeoutUntil |-> NoTimeout]
  /\ DOMAIN providerHealth = {lastOp.provider}

\* the cooldown of provider q is set and in the future
CooldownRunning(q) ==
  /\ StatusOf(providerHealth, q).timeoutUntil # NoTimeout
  /\ StatusOf(providerHealth, q).timeoutUntil > now

\* C16: whatever its failureCount, a provider is unavailable to routing while
\* its cooldown is set and in the future, and a provider with a credential is
\* available as soon as the cooldown is unset or no longer in the future.
C16_AvailableUnlessCooldownRunning ==
  \A q \in ProviderType :
    /\ CooldownRunning(q) => ~Routable(q)
    /\ (~CooldownRunning(q) /\ EnvVarOf(q) \in env) => Routable(q)
    /\ isTimedOut(providerHealth, q, now) <=> CooldownRunning(q)

\* a provider with three or more failures on record and no success since is
\* routable again because its cooldown has run out
C16_Witness ==
  \E q \in ProviderType :
    /\ q \in DOMAIN providerHealth
    /\ providerHealth[q].failureCount >= 3
    /\ providerHealth[q].timeoutUntil # NoTimeout
    /\ providerHealth[q].timeoutUntil <= now
    /\ lastOp.op = "reportFailure"
    /\ Routable(q)

\* C17: with the tracker calls of other invocations interleaved at the await
\* points of an invocation, no update is lost: every provider's failureCount is
\* the number of reportFailure calls made for it since its last reportSuccess
\* (or since the start of the process).
C17_NoLostUpdate ==
  \A q \in ProviderType : StatusOf(providerHealth, q).failureCount = streak[q]

\* one failure reported by the invocation and one reported by another
\* invocation, the only tracker calls so far, are both on record for a provider
C17_Witness ==
  /\ failures = 1
  /\ opsDone = 1
  /\ pc \in {"route", "done"}
  /\ \E q \in ProviderType : StatusOf(providerHealth, q).failureCount = 2

\* the condition of the rule of classifyPrompt that returns `type`
RuleMatches(type, text) ==
  CASE type = "math_logic" ->
         MatchesLower(text, MathKeywords) \/ Matches(text, DigitOrOperatorPhrases)
    [] type = "code_generation" ->
         Matches(text, CodeMarkers) \/ MatchesLower(text, CodeKeywords)
    [] type = "summarization" -> MatchesLower(text, SummaryKeywords)
    [] type = "translation" -> MatchesLower(text, TranslationKeywords)
    [] type = "analysis" -> MatchesLower(text, AnalysisKeywords)
    [] type = "creative_writing" -> MatchesLower(text, CreativeKeywords)
    [] type = "qa_complex" ->
         PromptLength(text) > ComplexLength \/ MatchesLower(text, ComplexKeywords)
    [] type = "qa_simple" -> MatchesLower(text, SimpleMarkers)
    [] type = "general_chat" -> TRUE

\* the rule groups that can fail to match
RuleGroups == PromptType \ {"general_chat"}

\* C18: classifyPrompt returns one of the nine categories for every text, and
\* general_chat when no rule group matches.
C18_ClassifyTotal ==
  pc = "routed" =>
    /\ routingDecision.promptType \in PromptType
    /\ routingDecision.promptType = classifyPrompt(prompt)
    /\ (\A type \in RuleGroups : ~RuleMatches(type, prompt)) =>
         routingDecision.promptType = "general_chat"

\* a prompt of two phrases that no rule group matches was classified
C18_Witness ==
  /\ pc = "routed"
  /\ Len(prompt) = 2
  /\ \A type \in RuleGroups : ~RuleMatches(type, prompt)
  /\ routingDecision.promptType = "general_chat"

\* the order in which the claim lists the rule groups
ClaimedOrder ==
  << "math_logic", "code_generation", "summarization", "translation", "analysis",
     "creative_writing", "qa_complex", "qa_simple", "general_chat" >>

\* the earliest category of the claimed order whose rule matches the text
EarliestMatch(text) ==
  LET hits == {k \in 1..Len(ClaimedOrder) : RuleMatches(ClaimedOrder[k], text)}
  IN  ClaimedOrder[CHOOSE k \in hits : \A j \in hits : k <= j]

\* the rule groups that match the text
MatchingGroups(text) == {type \in RuleGroups : RuleMatches(type, text)}

\* C19: classifyPrompt returns the earliest category, in the order math_logic,
\* code_generation, summarization, translation, analysis, creative_writing,
\* qa_complex, qa_simple, general_chat, whose rule matches the prompt, whichever
\* later rules match too.
C19_EarliestRuleWins ==
  pc = "routed" => routingDecision.promptType = EarliestMatch(prompt)

\* a prompt that matches the code rule and the math rule was classified as math
C19_Witness ==
  /\ pc = "routed"
  /\ {"math_logic", "code_generation"} \subseteq MatchingGroups(prompt)
  /\ routingDecision.promptType = "math_logic"

\* the phrases of the vocabulary that hold a digit, and those that hold one of
\* the arithmetic operators + - * / =
DigitPhrases == {"2024", "x^2", "2+2"}
OperatorPhrases == {"2+2", "-"}

\* the text holds a math keyword, or digits together with an arithmetic operator
MathAsClaimed(text) ==
  \/ MatchesLower(text, MathKeywords)
  \/ Matches(text, DigitPhrases) /\ Matches(text, OperatorPhrases)

\* C20 (as claimed): a prompt is classified as math_logic exactly when it holds
\* a math keyword or digits combined with an arithmetic operator.
C20_MathRuleAsClaimed ==
  pc = "routed" => (routingDecision.promptType = "math_logic" <=> MathAsClaimed(prompt))

\* C21 (as claimed): classifyPrompt returns the expected category for every
\* prompt of the evaluation set.
C21_EvaluationSetClassified ==
  pc = "routed" =>
    \A item \in evaluationSet :
      item.prompt = prompt => routingDecision.promptType = item.expectedType

\* the names of the models of a candidate list
NamesOf(models) == [i \in 1..Len(models) |-> models[i].model]

\* the models of the preference list of (type, prio) that are available with
\* the providers in `excluded` left out, in the order of the list
Survivors(type, prio, excluded) ==
  LET available == Range(NamesOf(getAvailableProviders(excluded)))
  IN  SelectSeq(DEFAULT_ROUTING_RULES(type, prio), LAMBDA m : m \in available)

\* the available models of the three preference lists of a category
Pool(type, excluded) ==
  UNION {Range(Survivors(type, prio, excluded)) : prio \in RoutingPriority}

\* the smaller of two numbers
Min(a, b) == IF a < b THEN a ELSE b

\* C22 (as claimed): the decision routePrompt returns starts with the available
\* models of the requested priority's list and, when these are fewer than 3,
\* goes on with available models of the other two priorities' lists, without
\* repeats, until 3 are selected or none is left.
C22_ToppedUpFromOtherPriorities ==
  pc = "send" =>
    LET type == routingDecision.promptType
        names == NamesOf(routingDecision.selectedModels)
        own == Survivors(type, priority, excludedProviders)
        pool == Pool(type, excludedProviders)
    IN  /\ SubSeq(names, 1, Min(Len(names), Len(own))) = SubSeq(own, 1, Min(Len(names), Len(own)))
        /\ Range(names) \subseteq pool
        /\ Cardinality(Range(names)) = Len(names)
        /\ Len(own) < 3 => Len(names) >= Min(3, Cardinality(pool))

\* C23 (as claimed): selectedModels never has more than 5 entries, neither in the
\* decision of routePrompt nor in the list sent to the completion service after the
\* custom-override step.
C23_AtMostFiveCandidates ==
  /\ Len(routingDecision.selectedModels) <= 5
  /\ Len(sent) <= 5

\* a model name that is in the catalog, of a credentialed provider that is neither
\* excluded nor in cooldown
AvailableName(name) ==
  /\ name \in Range(AllModelNames)
  /\ EnvVarOf(NamePrefix(name)) \in env
  /\ NamePrefix(name) \notin Range(excludedProviders)
  /\ ~isTimedOut(providerHealth, NamePrefix(name), now)

\* the models the custom rules name for the category, those available, in the
\* order given
AvailableNamed(type) ==
  IF type \in DOMAIN customRules
    THEN SelectSeq(customRules[type], AvailableName)
    ELSE <<>>

\* C24: in the custom-override step, if customRules has an entry for the category
\* and at least one model it names is available, the candidate list becomes
\* exactly the available named models in the order given and the note is added
\* to reasoning; otherwise the default selection is left unchanged.
C24_CustomOverride ==
  [][ pc = "send" =>
        LET named == AvailableNamed(routingDecision.promptType)
        IN  IF named # <<>>
              THEN /\ NamesOf(routingDecision'.selectedModels) = named
                   /\ \A i \in 1..Len(named) :
                        routingDecision'.selectedModels[i].provider = NamePrefix(named[i])
                   /\ routingDecision'.customApplied
                   /\ sent' = routingDecision'.selectedModels
              ELSE routingDecision' = routingDecision ]_vars

\* the override is sent with fewer models than the rules name in the catalog: one
\* of them is not available
C24_Witness ==
  /\ pc = "calling"
  /\ routingDecision.customApplied
  /\ customRules = ChatRules
  /\ Len(sent) = 1
  /\ "OPENAI_API_KEY" \in env

\* the estimated cost of one call of a model: 500 prompt tokens and 150 completion
\* tokens at its prices
ClaimedEstimate(name) ==
  TokenCost(500, CostInput(name)) + TokenCost(150, CostOutput(name))

RECURSIVE ClaimedTotal(_)
ClaimedTotal(names) ==
  IF names = <<>> THEN 0 ELSE ClaimedEstimate(Head(names)) + ClaimedTotal(Tail(names))

\* estimatedCost of a decision is the mean of the estimates of its selectedModels
MeanOfSelected(decision) ==
  IF decision.selectedModels = <<>>
    THEN decision.estimatedCost = 0
    ELSE decision.estimatedCost * Len(decision.selectedModels)
           = ClaimedTotal(NamesOf(decision.selectedModels))

\* C25 (as claimed): the estimatedCost of the decision used and returned by
\* getModelResponseWithRouting is the arithmetic mean, over its final
\* selectedModels, of the 500/150-token estimate, and 0 for an empty list, also
\* when a custom override replaced the list.
C25_EstimateIsMeanOfSelected ==
  /\ pc \in {"send", "calling", "catchHandle"} => MeanOfSelected(routingDecision)
  /\ response.routingDecision # NoDecision => MeanOfSelected(response.routingDecision)

\* the catalog name of the candidate the service used
UsedName ==
  CHOOSE name \in Range(NamesOf(sent)) :
    ModelUsed([provider |-> NamePrefix(name), model |-> name]) = result.providers[1]

\* C26 (as claimed): on success actualCost is (prompt_tokens/1e6)*inputPrice +
\* (completion_tokens/1e6)*outputPrice of the model actually used when the service
\* reports usage, and the estimatedCost of the decision when it reports none.
C26_ActualCostFromUsage ==
  response.status = "success" =>
    IF result.usage.reported
      THEN response.actualCost =
             TokenCost(result.usage.prompt_tokens, CostInput(UsedName))
               + TokenCost(result.usage.completion_tokens, CostOutput(UsedName))
      ELSE response.actualCost = response.routingDecision.estimatedCost

\* every model of the list belongs to a provider whose API key is set
AllCredentialed(models) ==
  \A i \in 1..Len(models) : EnvVarOf(models[i].provider) \in env

\* C27: no model of a provider whose API key is not configured appears in a
\* RoutingDecision or in a list sent to the completion service; with no provider
\* key configured every candidate list is empty.
C27_OnlyCredentialedProviders ==
  /\ AllCredentialed(routingDecision.selectedModels)
  /\ AllCredentialed(sent)
  /\ AllCredentialed(response.routingDecision.selectedModels)
  /\ (\A q \in ProviderType : EnvVarOf(q) \notin env) =>
       /\ routingDecision.selectedModels = <<>>
       /\ sent = <<>>
       /\ response.routingDecision.selectedModels = <<>>

\* custom rules that name a model of openai and one of mistral are applied with
\* only the key of mistral set
C27_Witness ==
  /\ pc = "calling"
  /\ env = {"NOTDIAMOND_API_KEY", "MISTRAL_API_KEY"}
  /\ customRules = ChatRules
  /\ routingDecision.customApplied
  /\ sent # <<>>

RECURSIVE IsSubList(_, _)
\* `sub` holds elements of `list`, in the order of `list`
IsSubList(sub, list) ==
  IF sub = <<>> THEN TRUE
  ELSE IF list = <<>> THEN FALSE
  ELSE IF Head(sub) = Head(list) THEN IsSubList(Tail(sub), Tail(list))
  ELSE IsSubList(sub, Tail(list))

\* every provider has its key set and none is in cooldown
AllProvidersAvailable ==
  \A q \in ProviderType :
    EnvVarOf(q) \in env /\ ~isTimedOut(providerHealth, q, now)

\* C28: the models routePrompt returns appear in the order of the preference list
\* of (category, priority); with every provider credentialed, none excluded and
\* none in cooldown the list is not empty and starts with the first model of the
\* preference list.
C28_PreferenceOrderKept ==
  pc = "routed" =>
    LET names == NamesOf(routingDecision.selectedModels)
        preferred == DEFAULT_ROUTING_RULES(routingDecision.promptType, priority)
    IN  /\ IsSubList(names, preferred)
        /\ AllProvidersAvailable => names # <<>> /\ names[1] = preferred[1]

\* a summarization prompt routed for cost with every provider available: the
\* list starts with the first summarization model of the cost list
C28_Witness ==
  /\ pc = "routed"
  /\ AllProvidersAvailable
  /\ routingDecision.promptType = "summarization"
  /\ priority = "cost"
  /\ routingDecision.selectedModels[1].model = "anthropic/claude-3-haiku-20240307"

\* the decision is one that routePrompt returned
IsDecision(decision) == decision # NoDecision

\* C29: cost estimates are never negative: the estimatedCost of every
\* RoutingDecision is at least 0, and so is the actualCost of every successful
\* result whose reported token counts are not negative.
C29_CostsNotNegative ==
  /\ IsDecision(routingDecision) => routingDecision.estimatedCost >= 0
  /\ IsDecision(response.routingDecision) => response.routingDecision.estimatedCost >= 0
  /\ ( /\ response.status = "success"
       /\ result.usage.prompt_tokens >= 0
       /\ result.usage.completion_tokens >= 0 ) => response.actualCost >= 0

\* a call succeeded with a usage of positive token counts and a positive cost
C29_Witness ==
  /\ response.status = "success"
  /\ result.usage.reported
  /\ result.usage.prompt_tokens > 0
  /\ result.usage.completion_tokens > 0
  /\ response.actualCost > 0
  /\ response.actualCost # response.routingDecision.estimatedCost

\* the tracker and the clock are as the first call read them
SameTrackerAndClock ==
  /\ firstCall.providerHealth = providerHealth
  /\ firstCall.now = now

CandidatesWhenHealthy ==
  LET type == classifyPrompt(prompt)
      named == IF type \in DOMAIN customRules THEN Range(customRules[type]) ELSE {}
  IN  {name \in (Range(DEFAULT_ROUTING_RULES(type, priority)) \cup named)
               \cap Range(AllModelNames) :
         EnvVarOf(NamePrefix(name)) \in env}

\* C31 (as claimed): the state of the health tracker never by itself makes a
\* request fail: an invocation that makes a completion call when started with an
\* empty tracker does not end, with any tracker state, with the
\* no-models-available error before its first call.
C31_TrackerNeverFailsRequest ==
  ( /\ pc = "done"
    /\ calls = 0
    /\ response.error = "No available models left" ) => CandidatesWhenHealthy = {}

\* C32: in every reachable tracker state a provider whose cooldown is set has a
\* failureCount of at least 3, reached by that many failures in a row: a
\* reportSuccess for it, of this or of another invocation, restarts the count.
C32_CooldownOnlyAfterThreeFailures ==
  \A q \in DOMAIN providerHealth :
    providerHealth[q].timeoutUntil # NoTimeout =>
      /\ providerHealth[q].failureCount >= 3
      /\ streak[q] >= 3

\* a provider is in cooldown with a count of exactly 3 after four failed calls of
\* this invocation and tracker calls of another one
C32_Witness ==
  \E q \in ProbeProviders :
    /\ q \in DOMAIN providerHealth
    /\ providerHealth[q].timeoutUntil # NoTimeout
    /\ providerHealth[q].failureCount = 3
    /\ opsDone >= 1
    /\ failures = 4

\* the cooldown of q has been set and has run out
CooldownExpired(q) ==
  /\ StatusOf(providerHealth, q).timeoutUntil # NoTimeout
  /\ StatusOf(providerHealth, q).timeoutUntil <= now

\* the failureCount of q goes down only in a reportSuccess(q)
LoweredOnlyBySuccess(q) ==
  StatusOf(providerHealth', q).failureCount < StatusOf(providerHealth, q).failureCount
    => (lastOp'.op = "reportSuccess" /\ lastOp'.provider = q)

\* a reportFailure(q) after the cooldown of q ran out starts a new cooldown
FailureAfterExpiryRestarts(q) ==
  ( /\ CooldownExpired(q)
    /\ lastOp'.op = "reportFailure" /\ lastOp'.provider = q
    /\ providerHealth' # providerHealth )
  => /\ providerHealth'[q].timeoutUntil = now + 5 * 60 * 1000
     /\ isTimedOut(providerHealth', q, now')

\* C33: failureCount is lowered only by reportSuccess, the expiry of a cooldown
\* does not reset it: once the cooldown has run out the provider is routable
\* again, and one more reportFailure for it starts a new 5-minute cooldown at once.
C33_ExpiryKeepsCount ==
  [][ \A q \in ProviderType :
        /\ LoweredOnlyBySuccess(q)
        /\ (CooldownExpired(q) /\ EnvVarOf(q) \in env) => Routable(q)
        /\ FailureAfterExpiryRestarts(q) ]_vars

\* a fourth failure was reported after the cooldown of the first three had run
\* out, and started a new cooldown
C33_Witness ==
  /\ lastOp.op = "reportFailure"
  /\ ~lastOp.wasTimedOut
  /\ lastOp.at = now
  /\ now >= CooldownMs
  /\ providerHealth[lastOp.provider].failureCount = 4
  /\ providerHealth[lastOp.provider].timeoutUntil = now + CooldownMs
  /\ EnvVarOf(lastOp.provider) \in env

\* the exclusion list holds providers, each once
ExclusionsDistinct(excluded) ==
  /\ Range(excluded) \subseteq ProviderType
  /\ Cardinality(Range(excluded)) = Len(excluded)

\* the step goes from a failed attempt to the next one
IsRetry == pc = "catchHandle" /\ pc' \in {"route", "final"}

\* C34: within an invocation the exclusion list starts empty, never shrinks,
\* gains exactly one provider on each retry and never holds a provider twice, so
\* an invocation retries at most 5 times, once per provider.
C34_ExclusionsGrowByOne ==
  [][ /\ invocations' # invocations => excludedProviders' = <<>>
      /\ IsRetry =>
           /\ Len(excludedProviders') = Len(excludedProviders) + 1
           /\ attempt' = attempt + 1
      /\ (invocations' = invocations /\ ~IsRetry) => excludedProviders' = excludedProviders
      /\ invocations' = invocations =>
           SubSeq(excludedProviders', 1, Len(excludedProviders)) = excludedProviders
      /\ ExclusionsDistinct(excludedProviders')
      /\ Len(excludedProviders') <= 5
      /\ pc' # "done" => Len(excludedProviders') = attempt' - 1 ]_vars

\* an invocation gave up after every one of the five providers was excluded
C34_Witness ==
  /\ pc = "done"
  /\ Range(excludedProviders) = ProviderType
  /\ attempt = 6

\* C35 (as claimed): when the loop retries after a billing-class error, the
\* provider newly excluded is the provider of a candidate sent in the failed
\* call, and the list sent in the next attempt differs from the list that failed.
C35_RetryChangesList ==
  [][ /\ (IsRetry /\ pc' = "route") =>
           excludedProviders'[Len(excludedProviders')] \in SentProviders
      /\ (pc = "send" /\ pc' = "calling" /\ attempt > 1) => sent' # sent ]_vars

\* C36 (as claimed): with other invocations sharing the tracker, no list holds, at
\* the moment it is sent to the completion service, a provider in cooldown: a
\* provider that another invocation put into cooldown between the routing and
\* the call of this invocation is not called.
C36_NoCooldownProviderCalled ==
  [][ (pc = "send" /\ pc' = "calling") =>
        \A i \in 1..Len(sent') : ~isTimedOut(providerHealth, sent'[i].provider, now) ]_vars

RECURSIVE SumOfCounts(_, _)
\* the sum of the failureCount of the providers of set `providers`
SumOfCounts(h, providers) ==
  IF providers = {} THEN 0
  ELSE LET q == CHOOSE x \in providers : TRUE
       IN  StatusOf(h, q).failureCount + SumOfCounts(h, providers \ {q})

\* the providers whose failureCount the step raises
Raised ==
  {q \in ProviderType :
     StatusOf(providerHealth', q).failureCount > StatusOf(providerHealth, q).failureCount}

\* C37: a failed completion attempt raises the failureCount of at most one
\* provider, by exactly 1, and a successful attempt raises none; so the counts
\* never add up to more than the number of failed completion calls.
C37_OneCountPerFailedCall ==
  [][ /\ Cardinality(Raised) <= 1
      /\ \A q \in Raised :
           /\ pc = "catchHandle"
           /\ providerHealth'[q].failureCount = StatusOf(providerHealth, q).failureCount + 1
      /\ (pc = "calling" /\ pc' = "done") => Raised = {}
      /\ SumOfCounts(providerHealth', ProviderType) <= failures' ]_vars

\* a call that sent the models of custom rules, the default selection being
\* empty, failed and no count was raised
C37_Witness ==
  /\ pc = "done"
  /\ calls = 1
  /\ failures = 1
  /\ response.error = "Routing failed"
  /\ routingDecision.selectedModels = <<>>
  /\ SumOfCounts(providerHealth, ProviderType) = 0

\* the invocation at hand is one that ends without a call of the completion
\* service, or has not come to its first call yet
EndsWithoutCall ==
  /\ pc # "idle"
  /\ \/ EmptyOrWhitespaceOnly
     \/ "NOTDIAMOND_API_KEY" \notin env
     \/ attempt = 1 /\ pc \in {"route", "send"}
     \/ attempt = 1 /\ pc = "done" /\ response.error = "No available models left"

\* C38: an invocation that ends without a call of the completion service (empty
\* prompt, NOTDIAMOND_API_KEY not set, or no candidate at attempt 1) leaves the
\* health tracker as it was: no failureCount and no cooldown is modified.
C38_NoCallNoTrackerChange ==
  [][ EndsWithoutCall' => (providerHealth' = providerHealth /\ calls' = 0) ]_vars

\* an invocation ended at attempt 1 without a call, every candidate being of a
\* provider in cooldown, and the tracker holds what the invocation before left
C38_Witness ==
  /\ pc = "done"
  /\ calls = 0
  /\ attempt = 1
  /\ response.error = "No available models left"
  /\ \E q \in DOMAIN providerHealth : isTimedOut(providerHealth, q, now)

\* the entry of q is after the step what it was before it
EntryUnchanged(q) ==
  /\ (q \in DOMAIN providerHealth') = (q \in DOMAIN providerHealth)
  /\ StatusOf(providerHealth', q) = StatusOf(providerHealth, q)

\* C39: reportFailure(p) and reportSuccess(p) change the entry of p only, and
\* routePrompt and getHealthStatus change no entry: the state of every other
\* provider is left as it was by any operation on p.
C39_OnlyOwnEntryChanges ==
  [][ /\ lastOp'.op \in {"reportFailure", "reportSuccess"} =>
           \A q \in ProviderType \ {lastOp'.provider} : EntryUnchanged(q)
      /\ lastOp'.op \in {"routePrompt", "getHealthStatus"} =>
           \A q \in ProviderType : EntryUnchanged(q) ]_vars

\* a reportSuccess reset the entry of openai while mistral stayed in cooldown
C39_Witness ==
  /\ lastOp.op = "reportSuccess"
  /\ lastOp.provider = "openai"
  /\ lastOp.at = now
  /\ "openai" \in DOMAIN providerHealth
  /\ providerHealth["openai"].failureCount = 0
  /\ isTimedOut(providerHealth, "mistral", now)

====
